---------------------------- MODULE Spec2Model ----------------------------
(***************************************************************************)
(* A model of src/app.py: the Flask backend that takes a resume PDF and a  *)
(* job description, extracts the resume's text, asks a generative model    *)
(* for a verdict and relays the verdict as JSON.                           *)
(*                                                                         *)
(* Texts are sequences of characters (one-character strings).  The one     *)
(* abstraction: a quoted JSON string literal travels as a single element;  *)
(* it starts and ends with a double quote, so it never takes part in       *)
(* whitespace or fence stripping.                                          *)
(*                                                                         *)
(* Python values are records tagged with their type (PyInt, PyStr, PyList, *)
(* PyDict, PyNone, PyBool below).  A str is the sequence of the pieces it  *)
(* was concatenated from.                                                  *)
(***************************************************************************)
EXTENDS Integers, Sequences, FiniteSets, TLC

Min(a, b) == IF a <= b THEN a ELSE b
Max(a, b) == IF a >= b THEN a ELSE b

(***************************************************************************)
(* Python values                                                           *)
(***************************************************************************)
PyNone == [t |-> "NoneType"]
PyInt(n) == [t |-> "int", n |-> n]
PyBool(b) == [t |-> "bool", b |-> b]
PyStr(s) == [t |-> "str", s |-> s]
PyList(a) == [t |-> "list", a |-> a]
PyDict(d) == [t |-> "dict", d |-> d]
EmptyDict == [k \in {} |-> PyNone]

\* A raised exception: its class and str(e).
Exc(cls, text) == [cls |-> cls, text |-> text]

(***************************************************************************)
(* str methods used by the code                                            *)
(***************************************************************************)
\* The characters str.strip() removes.
Whitespace == {" ", "\n", "\t", "\r"}

RECURSIVE LStrip(_)
LStrip(text) ==
    IF text # <<>> /\ Head(text) \in Whitespace THEN LStrip(Tail(text)) ELSE text

RECURSIVE RStrip(_)
RStrip(text) ==
    IF text # <<>> /\ text[Len(text)] \in Whitespace
    THEN RStrip(SubSeq(text, 1, Len(text) - 1))
    ELSE text

\* text.strip()
Strip(text) == RStrip(LStrip(text))

\* text[i:j] with Python's 0-based, end-exclusive, clamped indices (i, j >= 0).
Slice(text, i, j) == SubSeq(text, Min(i, Len(text)) + 1, Min(j, Len(text)))

\* text[n:]
SliceFrom(text, n) == Slice(text, n, Len(text))

\* A slip: the cap is forgotten, text[:n] written as text.
SliceTo_NoCut(text, n) == text

\* text[:n]
SliceTo(text, n) == Slice(text, 0, n)

\* text[:-n]
DropLast(text, n) == Slice(text, 0, Max(Len(text) - n, 0))

\* text.startswith(prefix)
StartsWith(text, prefix) == Slice(text, 0, Len(prefix)) = prefix

\* text.endswith(suffix)
EndsWith(text, suffix) ==
    /\ Len(text) >= Len(suffix)
    /\ SubSeq(text, Len(text) - Len(suffix) + 1, Len(text)) = suffix

\* The backtick character: a TLA+ string cannot hold it, so it goes by its code point.
Backtick == "U+0060"
Fence == <<Backtick, Backtick, Backtick>>
FenceJson == Fence \o <<"j", "s", "o", "n">>

(***************************************************************************)
(* remove_code_fences, src/app.py lines 95-103                             *)
(***************************************************************************)
StripOpeningFence(text) ==
    IF StartsWith(text, FenceJson) THEN Strip(SliceFrom(text, 7))
    ELSE IF StartsWith(text, Fence) THEN Strip(SliceFrom(text, 3))
    ELSE text

\* A slip: the closing fence is left in place.
StripClosingFence_Never(text) == text

StripClosingFence(text) ==
    IF EndsWith(text, Fence) THEN Strip(DropLast(text, 3)) ELSE text

remove_code_fences(text) == StripClosingFence(StripOpeningFence(Strip(text)))

(***************************************************************************)
(* json.loads (the standard library's decoder) on the characters the       *)
(* replies of this model are made of: objects, arrays, string literals,    *)
(* non-negative integers, null, true and false.                            *)
(***************************************************************************)
\* The contents of the string literals that occur in replies.
StrContents ==
    {"score", "explanation", "missing_skills", "present_skills", "confidence",
     "Strong match", "Go", "backend"}

Quote(s) == "\"" \o s \o "\""
IsStrLit(c) == \E s \in StrContents : Quote(s) = c
Unquote(c) == CHOOSE s \in StrContents : Quote(s) = c

JsonWs == {" ", "\t", "\n", "\r"}
Digits == <<"0", "1", "2", "3", "4", "5", "6", "7", "8", "9">>
IsDigit(c) == \E k \in 1..10 : Digits[k] = c
DigitVal(c) == (CHOOSE k \in 1..10 : Digits[k] = c) - 1

\* s[i:i+1] at the 1-based position i: "" past the end.
At(s, i) == IF i >= 1 /\ i <= Len(s) THEN s[i] ELSE ""

\* WHITESPACE.match(s, idx).end(), 1-based.
RECURSIVE W(_, _)
W(s, i) == IF At(s, i) \in JsonWs THEN W(s, i + 1) ELSE i

\* A decoder result: a value and the position after it, or a JSONDecodeError
\* with its message and 0-based position.
Ok(v, i) == [ok |-> TRUE, val |-> v, end |-> i]
Err(msg, i) == [ok |-> FALSE, msg |-> msg, pos |-> i - 1]

\* NUMBER_RE: 0, or a non-zero digit followed by digits.
RECURSIVE ScanDigits(_, _, _)
ScanDigits(s, i, acc) ==
    IF IsDigit(At(s, i))
    THEN ScanDigits(s, i + 1, 10 * acc + DigitVal(At(s, i)))
    ELSE Ok(PyInt(acc), i)

ScanNumber(s, i) ==
    IF At(s, i) = "0" THEN Ok(PyInt(0), i + 1) ELSE ScanDigits(s, i, 0)

RECURSIVE ScanOnce(_, _), ObjectPairs(_, _, _), ArrayItems(_, _, _)

\* JSONObject's loop, entered at a key (i is the key's position).
ObjectPairs(s, i, pairs) ==
    LET key == Unquote(At(s, i))
        c == W(s, i + 1)
    IN  IF At(s, c) # ":" THEN Err("Expecting ':' delimiter", c)
        ELSE LET r == ScanOnce(s, W(s, c + 1)) IN
             IF ~r.ok THEN r
             ELSE LET d == (key :> r.val) @@ pairs
                      e == W(s, r.end)
                  IN  IF At(s, e) = "}" THEN Ok(PyDict(d), e + 1)
                      ELSE IF At(s, e) # "," THEN Err("Expecting ',' delimiter", e)
                      ELSE LET k == W(s, e + 1) IN
                           IF IsStrLit(At(s, k)) THEN ObjectPairs(s, k, d)
                           ELSE Err("Expecting property name enclosed in double quotes", k)

\* JSONObject: i is the position after the opening brace.
JSONObject(s, i) ==
    LET k == W(s, i) IN
    IF IsStrLit(At(s, k)) THEN ObjectPairs(s, k, EmptyDict)
    ELSE IF At(s, k) = "}" THEN Ok(PyDict(EmptyDict), k + 1)
    ELSE Err("Expecting property name enclosed in double quotes", k)

\* JSONArray's loop, entered at a value.
ArrayItems(s, i, values) ==
    LET r == ScanOnce(s, i) IN
    IF ~r.ok THEN r
    ELSE LET e == W(s, r.end) IN
         IF At(s, e) = "]" THEN Ok(PyList(Append(values, r.val)), e + 1)
         ELSE IF At(s, e) # "," THEN Err("Expecting ',' delimiter", e)
         ELSE ArrayItems(s, W(s, e + 1), Append(values, r.val))

\* JSONArray: i is the position after the opening bracket.
JSONArray(s, i) ==
    LET k == W(s, i) IN
    IF At(s, k) = "]" THEN Ok(PyList(<<>>), k + 1) ELSE ArrayItems(s, k, <<>>)

\* scan_once
ScanOnce(s, i) ==
    LET c == At(s, i) IN
    IF IsStrLit(c) THEN Ok(PyStr(<<Unquote(c)>>), i + 1)
    ELSE IF c = "{" THEN JSONObject(s, i + 1)
    ELSE IF c = "[" THEN JSONArray(s, i + 1)
    ELSE IF Slice(s, i - 1, i + 3) = <<"n", "u", "l", "l">> THEN Ok(PyNone, i + 4)
    ELSE IF Slice(s, i - 1, i + 3) = <<"t", "r", "u", "e">> THEN Ok(PyBool(TRUE), i + 4)
    ELSE IF Slice(s, i - 1, i + 4) = <<"f", "a", "l", "s", "e">> THEN Ok(PyBool(FALSE), i + 5)
    ELSE IF IsDigit(c) THEN ScanNumber(s, i)
    ELSE Err("Expecting value", i)

\* JSONDecoder.decode: one value, whitespace around it, nothing after it.
json_decode(s) ==
    LET r == ScanOnce(s, W(s, 1)) IN
    IF ~r.ok THEN r
    ELSE LET e == W(s, r.end) IN
         IF e # Len(s) + 1 THEN Err("Extra data", e) ELSE r

\* str(e) of a JSONDecodeError: its message and where.
DecodeErrorText(r) == r.msg \o ": char " \o ToString(r.pos)

\* json.loads(s): the value, or the JSONDecodeError it raises.
json_loads(s) ==
    LET r == json_decode(s) IN
    IF r.ok THEN [raised |-> FALSE, value |-> r.val]
    ELSE [raised |-> TRUE, exc |-> Exc("JSONDecodeError", DecodeErrorText(r))]

(***************************************************************************)
(* Exceptions: the classes that occur and their base classes               *)
(***************************************************************************)
Bases ==
    [JSONDecodeError |-> "ValueError", ValueError |-> "Exception",
     AttributeError |-> "Exception", ClientError |-> "APIError",
     ServerError |-> "APIError", APIError |-> "Exception",
     ConnectError |-> "Exception", EmptyFileError |-> "FileDataError",
     FileDataError |-> "RuntimeError", RuntimeError |-> "Exception",
     Exception |-> "BaseException"]

\* isinstance(e, base) for an exception of class cls
RECURSIVE IsSubclass(_, _)
IsSubclass(cls, base) ==
    \/ cls = base
    \/ cls \in DOMAIN Bases /\ IsSubclass(Bases[cls], base)

(***************************************************************************)
(* pdf_to_text, src/app.py lines 64-70.  An uploaded file is               *)
(* [data |-> "pdf" | "empty" | "garbage", pages |-> the text of each page].*)
(***************************************************************************)
RECURSIVE ConcatPages(_)
ConcatPages(pages) ==
    IF pages = <<>> THEN <<>> ELSE Head(pages) \o ConcatPages(Tail(pages))

pdf_to_text(file) ==
    IF file.data = "empty"
    THEN [raised |-> TRUE, exc |-> Exc("EmptyFileError", "Cannot open empty stream")]
    ELSE IF file.data # "pdf"
    THEN [raised |-> TRUE, exc |-> Exc("FileDataError", "Failed to open stream")]
    ELSE [raised |-> FALSE, value |-> ConcatPages(file.pages)]

(***************************************************************************)
(* call_gemini, src/app.py lines 107-153                                   *)
(***************************************************************************)
ResumeCap == 4000
JdCap == 2000

\* The fixed instruction, one piece.
prompt == <<"You are an expert HR professional and ATS specialist. (...) Respond ONLY with a valid JSON object">>
ResumeLabel == <<"R", "e", "s", "u", "m", "e", ":", "\n">>
JdLabel == <<"J", "o", "b", " ", "D", "e", "s", "c", "r", "i", "p", "t", "i", "o", "n", ":", "\n">>

UserPart(text) == [role |-> "user", parts |-> <<[text |-> text]>>]

\* The contents argument of generate_content.
Contents(resume_txt_, jd_txt) ==
    << UserPart(prompt),
       UserPart(ResumeLabel \o SliceTo(resume_txt_, ResumeCap)),
       UserPart(JdLabel \o SliceTo(jd_txt, JdCap)) >>

ResultKeys == {"score", "explanation", "missing_skills", "present_skills"}

\* The defaults of the four data.get calls.
Defaults ==
    [score |-> PyInt(0), explanation |-> PyStr(<<>>),
     missing_skills |-> PyList(<<>>), present_skills |-> PyList(<<>>)]

\* Python's truth value of a value.
Falsy(v) ==
    \/ v.t = "NoneType"
    \/ v.t = "int" /\ v.n = 0
    \/ v.t = "bool" /\ ~v.b
    \/ v.t = "str" /\ v.s = <<>>
    \/ v.t = "list" /\ v.a = <<>>
    \/ v.t = "dict" /\ DOMAIN v.d = {}

\* A slip: d.get(key) or default, which also replaces null and empty values.
DictGet_OrDefault(d, key, default) ==
    IF key \in DOMAIN d /\ ~Falsy(d[key]) THEN d[key] ELSE default

\* d.get(key, default)
DictGet(d, key, default) == IF key \in DOMAIN d THEN d[key] ELSE default

\* A slip: only the keys the reply holds are copied.
ShapeResult_OnlyPresent(d) == [k \in ResultKeys \cap DOMAIN d |-> d[k]]

\* A slip: the two skill lists are exchanged.
ShapeResult_Swapped(d) ==
    [k \in ResultKeys |->
        CASE k = "missing_skills" -> DictGet(d, "present_skills", Defaults[k])
          [] k = "present_skills" -> DictGet(d, "missing_skills", Defaults[k])
          [] OTHER -> DictGet(d, k, Defaults[k])]

\* The dict of lines 140-145, built from the parsed dict d.
ShapeResult(d) == [k \in ResultKeys |-> DictGet(d, k, Defaults[k])]

\* The dict of lines 148-153.
Degraded(e) ==
    [score |-> PyInt(0),
     explanation |-> PyStr(<<"AI analysis failed: ", e.text>>),
     missing_skills |-> PyList(<<>>),
     present_skills |-> PyList(<<>>)]

\* getattr(value, name) of a value that has no such attribute.
NoAttribute(value, name) ==
    Exc("AttributeError", "'" \o value.t \o "' object has no attribute '" \o name \o "'")

\* Lines 132-145: what the try body does with the response, a return or a raise.
TryBody(resp) ==
    IF resp.text.t # "str"
    THEN [raised |-> TRUE, exc |-> NoAttribute(resp.text, "strip")]
    ELSE LET text == Strip(resp.text.s)
             clean_text == remove_code_fences(text)
             data == json_loads(clean_text)
         IN  IF data.raised THEN data
             ELSE IF data.value.t # "dict"
             THEN [raised |-> TRUE, exc |-> NoAttribute(data.value, "get")]
             ELSE [raised |-> FALSE, value |-> ShapeResult(data.value.d)]

\* A slip: except ValueError, which lets the client library's errors through.
Catches_OnlyValueError(e) == IsSubclass(e.cls, "ValueError")

\* Line 147: except Exception
Catches(e) == IsSubclass(e.cls, "Exception")

\* Lines 147-153: the except clause applied to what the try body did.
ExceptClause(outcome) ==
    IF outcome.raised /\ Catches(outcome.exc)
    THEN [raised |-> FALSE, value |-> Degraded(outcome.exc), degraded |-> TRUE]
    ELSE IF outcome.raised THEN outcome
    ELSE [raised |-> FALSE, value |-> outcome.value, degraded |-> FALSE]

(***************************************************************************)
(* The HTTP layer, src/app.py lines 186-196 and 232-234                    *)
(***************************************************************************)
Unset == [t |-> "unset"]

\* A slip: "and" for "or", so that one missing field is let through.
MissingField_Both(files_, form_) ==
    "resume" \notin DOMAIN files_ /\ "jd_text" \notin DOMAIN form_

\* Line 188: the condition of the 400 answer.
MissingField(files_, form_) ==
    "resume" \notin DOMAIN files_ \/ "jd_text" \notin DOMAIN form_

\* Line 189
BadRequest ==
    [status |-> 400,
     body |-> [error |-> PyStr(<<"Missing resume file or job description text">>)]]

\* Line 196: jsonify(result), status 200 by default
Jsonify(res) == [status |-> 200, body |-> res]

\* A slip: the status is left out of the handler's return.
handle_exception_Status200(e) == [status |-> 200, body |-> [error |-> PyStr(<<e.text>>)]]

\* Lines 232-234: handle_exception
handle_exception(e) == [status |-> 500, body |-> [error |-> PyStr(<<e.text>>)]]

\* A slip: a failure sends the request back to build the prompt and call again.
AfterTry_Retry(outcome) ==
    IF outcome.raised
    THEN [pc |-> "Prompting", result |-> Unset, http |-> [status |-> 0, body |-> Unset]]
    ELSE [pc |-> "Succeeded", result |-> outcome.value,
          http |-> [status |-> 200, body |-> outcome.value]]

\* Where a request goes after call_gemini's try statement: the except clause's
\* degraded dict, the try body's dict, or an exception leaving call_gemini.
AfterTry(outcome) ==
    LET r == ExceptClause(outcome) IN
    IF r.raised
    THEN [pc |-> "Failed", result |-> Unset, http |-> handle_exception(r.exc)]
    ELSE [pc |-> IF r.degraded THEN "Degraded" ELSE "Succeeded",
          result |-> r.value, http |-> Jsonify(r.value)]


\* Lines 132-153 on a reply text: the dict call_gemini returns for it.
CallGeminiOn(text) == ExceptClause(TryBody([text |-> PyStr(text)])).value

(***************************************************************************)
(* What the generative model can send back.  A reply is described by what  *)
(* it holds (inner) and how it is wrapped; the code sees only its text.    *)
(***************************************************************************)
MaxPad == 1
MaxPages == 2
MaxOver == 2

AllKeys == ResultKeys \cup {"confidence"}
KeyOrder == <<"score", "explanation", "missing_skills", "present_skills", "confidence">>
Modes == {"typed", "null", "odd"}

\* The value a reply object gives a key: of the requested type, null, or of
\* another type.
ValueOf(mode, key) ==
    IF mode = "null" THEN PyNone
    ELSE IF mode = "typed"
    THEN CASE key = "score" -> PyInt(82)
           [] key = "explanation" -> PyStr(<<"Strong match">>)
           [] key = "missing_skills" -> PyList(<<>>)
           [] key = "present_skills" -> PyList(<<PyStr(<<"Go">>), PyStr(<<"backend">>)>>)
           [] OTHER -> PyInt(7)
    ELSE CASE key = "score" -> PyStr(<<"Go">>)
           [] key = "explanation" -> PyInt(7)
           [] key = "missing_skills" -> PyBool(TRUE)
           [] key = "present_skills" -> PyDict([score |-> PyInt(1)])
           [] OTHER -> PyList(<<>>)

\* The same value as JSON text.
ValueText(mode, key) ==
    IF mode = "null" THEN <<"n", "u", "l", "l">>
    ELSE IF mode = "typed"
    THEN CASE key = "score" -> <<"8", "2">>
           [] key = "explanation" -> <<Quote("Strong match")>>
           [] key = "missing_skills" -> <<"[", "]">>
           [] key = "present_skills" -> <<"[", Quote("Go"), ",", " ", Quote("backend"), "]">>
           [] OTHER -> <<"7">>
    ELSE CASE key = "score" -> <<Quote("Go")>>
           [] key = "explanation" -> <<"7">>
           [] key = "missing_skills" -> <<"t", "r", "u", "e">>
           [] key = "present_skills" -> <<"{", Quote("score"), ":", "1", "}">>
           [] OTHER -> <<"[", "]">>

RECURSIVE MembersText(_, _, _, _)
MembersText(keys, mode, i, first) ==
    IF i > Len(KeyOrder) THEN <<>>
    ELSE IF KeyOrder[i] \notin keys THEN MembersText(keys, mode, i + 1, first)
    ELSE (IF first THEN <<>> ELSE <<",", "\n">>)
         \o <<Quote(KeyOrder[i]), ":", " ">> \o ValueText(mode, KeyOrder[i])
         \o MembersText(keys, mode, i + 1, FALSE)

\* The JSON text of the object with these keys.
ObjectText(keys, mode) == <<"{">> \o MembersText(keys, mode, 1, TRUE) \o <<"}">>

\* The object itself.
ObjectValue(keys, mode) == [k \in keys |-> ValueOf(mode, k)]

OtherShapes ==
    {"array", "number", "string", "null", "true", "empty", "truncated", "prose",
     "jsonword", "leadfence", "trailfence"}

Inners ==
    [shape : {"object"}, keys : SUBSET AllKeys, mode : Modes]
        \cup [shape : OtherShapes]

InnerText(inner) ==
    CASE inner.shape = "object" -> ObjectText(inner.keys, inner.mode)
      [] inner.shape = "array" -> <<"[", Quote("Go"), "]">>
      [] inner.shape = "number" -> <<"7">>
      [] inner.shape = "string" -> <<Quote("Go")>>
      [] inner.shape = "null" -> <<"n", "u", "l", "l">>
      [] inner.shape = "true" -> <<"t", "r", "u", "e">>
      [] inner.shape = "empty" -> <<>>
      [] inner.shape = "truncated" -> <<"{", Quote("score"), ":", " ", "8">>
      [] inner.shape = "prose" -> <<"S", "u", "r", "e", "!", " ", "{", "}">>
      [] inner.shape = "jsonword" -> <<"j", "s", "o", "n">> \o ObjectText(ResultKeys, "typed")
      [] inner.shape = "leadfence" -> Fence \o ObjectText(ResultKeys, "typed")
      [] inner.shape = "trailfence" -> ObjectText(ResultKeys, "typed") \o Fence

\* n characters of whitespace.
Pad(n) == [i \in 1..n |-> IF i % 2 = 1 THEN "\n" ELSE " "]

Wraps ==
    [opener : {"none"}, lead : 0..MaxPad, gap : {0}]
        \cup [opener : {"fence", "fencejson"}, lead : 0..MaxPad, gap : 0..MaxPad]

\* The reply's text: the inner text, bare or between an opening and a closing
\* fence, with whitespace around (lead) and inside the fences (gap).
Render(inner, wrap) ==
    IF wrap.opener = "none"
    THEN Pad(wrap.lead) \o InnerText(inner) \o Pad(wrap.lead)
    ELSE Pad(wrap.lead)
         \o (IF wrap.opener = "fencejson" THEN FenceJson ELSE Fence)
         \o Pad(wrap.gap) \o InnerText(inner) \o Pad(wrap.gap)
         \o Fence \o Pad(wrap.lead)

\* What the client library raises when the call fails.
AIErrors ==
    {Exc("ClientError", "400 INVALID_ARGUMENT. API key not valid"),
     Exc("ServerError", "503 UNAVAILABLE"),
     Exc("ConnectError", "Connection refused")}

(***************************************************************************)
(* The requests                                                            *)
(***************************************************************************)
PageTexts == {<<>>, <<"G", "o", "\n">>}
Docs == UNION {[1..n -> PageTexts] : n \in 1..MaxPages}
Uploads ==
    {[data |-> "empty", pages |-> <<>>], [data |-> "garbage", pages |-> <<>>]}
        \cup {[data |-> "pdf", pages |-> p] : p \in Docs}
JdTexts == {<<>>, <<"G", "o", " ", "d", "e", "v">>}

\* request.files and request.form: the fields present and their values.
FilesOf == {EmptyDict} \cup {("resume" :> f) : f \in Uploads}
FormsOf == {EmptyDict} \cup {("jd_text" :> j) : j \in JdTexts}

\* A text of n characters whose i-th character tells i modulo 7.
Letters == <<"a", "b", "c", "d", "e", "f", "g">>
LongText(n, phase) == [i \in 1..n |-> Letters[((i + phase) % 7) + 1]]
LengthsAround(cap) == {0, 1} \cup {n \in (cap - MaxOver)..(cap + MaxOver) : n >= 0}
LongTexts(cap) == {LongText(n, ph) : n \in LengthsAround(cap), ph \in {0, 3}}

(***************************************************************************)
(* State                                                                   *)
(***************************************************************************)
VARIABLES
    pc,          \* the request's step
    files,       \* request.files
    form,        \* request.form
    resume_txt,  \* upload_and_analyze's resume_txt
    contents,    \* the contents submitted to generate_content
    ai,          \* what the generative model did with the call
    response,    \* generate_content's return value
    result,      \* call_gemini's return value
    status,      \* the HTTP status of the response, 0 before it is sent
    body,        \* the JSON body of the response
    pdfCalls,    \* how many times pdf_to_text was entered
    aiCalls      \* how many times generate_content was called

vars ==
    <<pc, files, form, resume_txt, contents, ai, response, result, status, body,
      pdfCalls, aiCalls>>

Blank ==
    /\ resume_txt = <<>>
    /\ contents = <<>>
    /\ ai = [kind |-> "pending"]
    /\ response = Unset
    /\ result = Unset
    /\ status = 0
    /\ body = Unset
    /\ aiCalls = 0

Init ==
    /\ pc = "Listening"
    /\ files = EmptyDict
    /\ form = EmptyDict
    /\ pdfCalls = 0
    /\ Blank

\* A POST /upload request arrives.
Receive(f, fm) ==
    /\ pc = "Listening"
    /\ pc' = "Received"
    /\ files' = f
    /\ form' = fm
    /\ UNCHANGED <<resume_txt, contents, ai, response, result, status, body,
                   pdfCalls, aiCalls>>

\* Lines 188-192: the field check.
Validate ==
    /\ pc = "Received"
    /\ IF MissingField(files, form)
       THEN /\ pc' = "Rejected"
            /\ status' = BadRequest.status
            /\ body' = BadRequest.body
       ELSE /\ pc' = "Extracting"
            /\ UNCHANGED <<status, body>>
    /\ UNCHANGED <<files, form, resume_txt, contents, ai, response, result,
                   pdfCalls, aiCalls>>

\* Line 194: pdf_to_text; what it raises goes to handle_exception.
Extract ==
    /\ pc = "Extracting"
    /\ pdfCalls' = pdfCalls + 1
    /\ LET r == pdf_to_text(files["resume"]) IN
       IF r.raised
       THEN /\ pc' = "Failed"
            /\ status' = handle_exception(r.exc).status
            /\ body' = handle_exception(r.exc).body
            /\ UNCHANGED resume_txt
       ELSE /\ pc' = "Prompting"
            /\ resume_txt' = r.value
            /\ UNCHANGED <<status, body>>
    /\ UNCHANGED <<files, form, contents, ai, response, result, aiCalls>>

\* Lines 108-130: the contents are built and generate_content is called.
BuildPrompt ==
    /\ pc = "Prompting"
    /\ contents' = Contents(resume_txt, form["jd_text"])
    /\ aiCalls' = aiCalls + 1
    /\ pc' = "AwaitingModel"
    /\ UNCHANGED <<files, form, resume_txt, ai, response, result, status, body,
                   pdfCalls>>

\* generate_content returns a response that holds text.
ModelReplies(inner, wrap) ==
    /\ pc = "AwaitingModel"
    /\ ai' = [kind |-> "text", inner |-> inner, wrap |-> wrap]
    /\ response' = [text |-> PyStr(Render(inner, wrap))]
    /\ pc' = "Normalizing"
    /\ UNCHANGED <<files, form, resume_txt, contents, result, status, body,
                   pdfCalls, aiCalls>>

\* generate_content returns a response without text (response.text is None).
ModelRepliesNoText ==
    /\ pc = "AwaitingModel"
    /\ ai' = [kind |-> "notext"]
    /\ response' = [text |-> PyNone]
    /\ pc' = "Normalizing"
    /\ UNCHANGED <<files, form, resume_txt, contents, result, status, body,
                   pdfCalls, aiCalls>>

\* generate_content raises: control goes to the except clause, and from
\* there to line 196.
ModelRaises(e) ==
    /\ pc = "AwaitingModel"
    /\ ai' = [kind |-> "raise", exc |-> e]
    /\ LET next == AfterTry([raised |-> TRUE, exc |-> e]) IN
       /\ pc' = next.pc
       /\ result' = next.result
       /\ status' = next.http.status
       /\ body' = next.http.body
    /\ UNCHANGED <<files, form, resume_txt, contents, response, pdfCalls, aiCalls>>

\* Lines 132-153 and 196: the reply is stripped, parsed and shaped, and the
\* result is sent.
Normalize ==
    /\ pc = "Normalizing"
    /\ LET next == AfterTry(TryBody(response)) IN
       /\ pc' = next.pc
       /\ result' = next.result
       /\ status' = next.http.status
       /\ body' = next.http.body
    /\ UNCHANGED <<files, form, resume_txt, contents, ai, response, pdfCalls,
                   aiCalls>>

Next ==
    \/ \E f \in FilesOf, fm \in FormsOf : Receive(f, fm)
    \/ Validate
    \/ Extract
    \/ BuildPrompt
    \/ \E inner \in Inners, wrap \in Wraps : ModelReplies(inner, wrap)
    \/ ModelRepliesNoText
    \/ \E e \in AIErrors : ModelRaises(e)
    \/ Normalize

Spec == Init /\ [][Next]_vars

(***************************************************************************)
(* The prompt alone: call_gemini entered with texts around the two caps.   *)
(***************************************************************************)
InitPrompt ==
    /\ pc = "Prompting"
    /\ \E r \in LongTexts(ResumeCap), j \in LongTexts(JdCap) :
          /\ files = ("resume" :> [data |-> "pdf", pages |-> <<r>>])
          /\ form = ("jd_text" :> j)
          /\ resume_txt = r
    /\ pdfCalls = 1
    /\ contents = <<>>
    /\ ai = [kind |-> "pending"]
    /\ response = Unset
    /\ result = Unset
    /\ status = 0
    /\ body = Unset
    /\ aiCalls = 0

NextPrompt == BuildPrompt

SpecPrompt == InitPrompt /\ [][NextPrompt]_vars

(***************************************************************************)
(* Properties                                                              *)
(***************************************************************************)
\* call_gemini has returned or raised: the model was asked and the reply, if
\* any, has been processed.
CallOver == ai.kind # "pending" /\ pc # "Normalizing"

\* C1: whatever the AI call does (raises, replies with text that is not
\* JSON, with JSON that is not an object, with an object missing keys, with
\* a complete object, or with no text at all), call_gemini returns a dict
\* with exactly the four keys score, explanation, missing_skills and
\* present_skills, it is the body of an HTTP 200 response, and every 200
\* response carries exactly these four keys.
C1_FourFieldsAlways ==
    /\ status = 200 => DOMAIN body = ResultKeys
    /\ CallOver =>
          /\ status = 200
          /\ DOMAIN result = {"score", "explanation", "missing_skills", "present_skills"}
          /\ body = result

C1_Witness ==
    /\ pc = "Degraded"
    /\ ai.kind = "text"
    /\ ai.inner.shape = "array"
    /\ status = 200

\* C2: when the client library raises, the result is score 0, empty skill
\* lists and an explanation that contains the exception's text, the
\* response is HTTP 200 with that result, and the request ends Degraded,
\* not in handle_exception.
C2_AIFailureDegrades ==
    ai.kind = "raise" =>
        /\ pc = "Degraded"
        /\ status = 200
        /\ DOMAIN result = ResultKeys
        /\ result.score = PyInt(0)
        /\ result.missing_skills = PyList(<<>>)
        /\ result.present_skills = PyList(<<>>)
        /\ result.explanation.t = "str"
        /\ \E i \in DOMAIN result.explanation.s : result.explanation.s[i] = ai.exc.text
        /\ body = result

C2_Witness ==
    /\ ai.kind = "raise"
    /\ ai.exc.cls = "ConnectError"
    /\ pc = "Degraded"

\* C3: a request without the resume file field or without the jd_text form
\* field is answered 400 with a body holding an error key, and neither
\* pdf_to_text nor the AI call is started for it.
C3_MissingFieldRejected ==
    (/\ pc \notin {"Listening", "Received"}
     /\ ("resume" \notin DOMAIN files \/ "jd_text" \notin DOMAIN form)) =>
        /\ pc = "Rejected"
        /\ status = 400
        /\ "error" \in DOMAIN body
        /\ pdfCalls = 0
        /\ aiCalls = 0
        /\ ai.kind = "pending"
        /\ result = Unset

C3_Witness ==
    /\ pc = "Rejected"
    /\ "resume" \in DOMAIN files
    /\ "jd_text" \notin DOMAIN form

\* The reply is an inner text between an opening and a closing fence, and
\* call_gemini is done with it.
WrappedReplyDone == ai.kind = "text" /\ ai.wrap.opener # "none" /\ pc # "Normalizing"

\* The inner text has no fence of its own at either end, and under a bare
\* fence the text right after the fence does not begin with json.
FenceFreeInner ==
    LET t == Strip(InnerText(ai.inner)) IN
    /\ ~StartsWith(t, Fence)
    /\ ~EndsWith(t, Fence)
    /\ ~(/\ ai.wrap.opener = "fence"
         /\ StartsWith(Pad(ai.wrap.gap) \o InnerText(ai.inner), <<"j", "s", "o", "n">>))

\* One opening and one closing fence are stripped, which leaves the trimmed
\* inner text, and the result is the one of the inner text sent unwrapped.
SameAsUnwrapped ==
    /\ remove_code_fences(response.text.s) = Strip(InnerText(ai.inner))
    /\ result = CallGeminiOn(InnerText(ai.inner))

\* C4 as stated: for every inner text wrapped in a json fence or a bare
\* fence, exactly one opening and one closing fence are stripped and the
\* result equals the result of the inner text sent unwrapped.
C4_AnyInnerText == WrappedReplyDone => SameAsUnwrapped

\* C4, amended: the same for every inner text that, trimmed, neither begins
\* nor ends with a fence of its own and that, under a bare fence, does not
\* begin with json right after the fence.
C4_FenceFreeInnerText == (WrappedReplyDone /\ FenceFreeInner) => SameAsUnwrapped

C4_Witness ==
    /\ pc = "Succeeded"
    /\ ai.kind = "text"
    /\ ai.wrap = [opener |-> "fencejson", lead |-> 1, gap |-> 1]
    /\ ai.inner = [shape |-> "object", keys |-> ResultKeys, mode |-> "typed"]

\* The reply holds a JSON object, and call_gemini is done with it.
ObjectReplyDone == ai.kind = "text" /\ ai.inner.shape = "object" /\ pc # "Normalizing"

\* C5: when the reply parses to an object that lacks some of the four keys,
\* each missing key gets its default (0, "", [], []) and each present key
\* keeps the reply's value, null and values of other types included.
C5_DefaultsForMissingKeys ==
    (ObjectReplyDone /\ ResultKeys \ ai.inner.keys # {}) =>
        /\ pc = "Succeeded"
        /\ \A k \in {"score", "explanation", "missing_skills", "present_skills"} :
              result[k] =
                  IF k \in ai.inner.keys THEN ValueOf(ai.inner.mode, k)
                  ELSE CASE k = "score" -> PyInt(0)
                         [] k = "explanation" -> PyStr(<<>>)
                         [] OTHER -> PyList(<<>>)

C5_Witness ==
    /\ pc = "Succeeded"
    /\ ai.kind = "text"
    /\ ai.inner = [shape |-> "object", keys |-> {"score", "present_skills"}, mode |-> "null"]

\* The reply holds an object with all four keys and values of the requested
\* types, and call_gemini is done with it.
CompleteReplyDone ==
    /\ ObjectReplyDone
    /\ ResultKeys \subseteq ai.inner.keys
    /\ ai.inner.mode = "typed"

\* C6 as stated: the result, and the 200 body, equal the reply object
\* verbatim, also when the object carries keys beyond the four.
C6_VerbatimWithExtraKeys ==
    CompleteReplyDone =>
        /\ status = 200
        /\ result = ObjectValue(ai.inner.keys, ai.inner.mode)
        /\ body = result

\* C6, amended: the result, and the 200 body, hold the four keys with the
\* reply's values unchanged; a key beyond the four is dropped.
C6_FourKeysVerbatim ==
    CompleteReplyDone =>
        /\ pc = "Succeeded"
        /\ status = 200
        /\ DOMAIN result = ResultKeys
        /\ \A k \in ResultKeys : result[k] = ValueOf("typed", k)
        /\ body = result

C6_Witness ==
    /\ pc = "Succeeded"
    /\ ai.kind = "text"
    /\ ai.inner = [shape |-> "object", keys |-> AllKeys, mode |-> "typed"]
    /\ "confidence" \notin DOMAIN body

\* C7: a request whose jd_text is the empty string, or whose resume file is
\* empty, is rejected with 400 and reaches neither pdf_to_text nor the AI
\* call.
C7_EmptyFieldRejected ==
    (/\ pc \notin {"Listening", "Received"}
     /\ \/ "jd_text" \in DOMAIN form /\ form["jd_text"] = <<>>
        \/ "resume" \in DOMAIN files /\ files["resume"].data = "empty") =>
        /\ pc = "Rejected"
        /\ status = 400
        /\ pdfCalls = 0
        /\ aiCalls = 0

\* The text of the i-th message of the contents.
SentText(i) == contents[i].parts[1].text

\* sent is label followed by exactly the first min(Len(full), cap)
\* characters of full.
IsLabelThenPrefix(sent, label, full, cap) ==
    LET cut == SubSeq(sent, Len(label) + 1, Len(sent)) IN
    /\ Len(sent) >= Len(label)
    /\ SubSeq(sent, 1, Len(label)) = label
    /\ Len(cut) = (IF Len(full) <= cap THEN Len(full) ELSE cap)
    /\ \A i \in 1..Len(cut) : cut[i] = full[i]

\* C8: the message submitted to the model is the fixed instruction, then
\* the first min(len, 4000) characters of the resume text, then the first
\* min(len, 2000) characters of the job description; texts at or under the
\* cap go unchanged and nothing beyond the cap is sent.
C8_PromptTruncation ==
    pc = "AwaitingModel" =>
        /\ Len(contents) = 3
        /\ SentText(1) = prompt
        /\ IsLabelThenPrefix(SentText(2), ResumeLabel, resume_txt, 4000)
        /\ IsLabelThenPrefix(SentText(3), JdLabel, form["jd_text"], 2000)

C8_Witness ==
    /\ pc = "AwaitingModel"
    /\ Len(resume_txt) > 4000
    /\ Len(form["jd_text"]) > 2000
    /\ Len(SentText(2)) = Len(ResumeLabel) + 4000

\* The request passed the field check with a resume that is not a
\* well-formed PDF, and pdf_to_text has been tried on it.
BadPdfTried ==
    /\ pc \notin {"Listening", "Received", "Extracting"}
    /\ "resume" \in DOMAIN files
    /\ "jd_text" \in DOMAIN form
    /\ files["resume"].data # "pdf"

\* C9: when pdf_to_text raises on an accepted request, no degraded result
\* is made: the response is HTTP 500 with the body {"error": message} of
\* handle_exception, and the AI call is never issued.
C9_ExtractionFailureIs500 ==
    BadPdfTried =>
        /\ pc = "Failed"
        /\ status = 500
        /\ body = [error |-> PyStr(<<pdf_to_text(files["resume"]).exc.text>>)]
        /\ result = Unset
        /\ pdfCalls = 1
        /\ aiCalls = 0
        /\ ai.kind = "pending"

C9_Witness ==
    /\ pc = "Failed"
    /\ files["resume"].data = "garbage"
    /\ status = 500

\* The steps before a request is accepted or rejected.
IntakeMoves == {<<"Listening", "Received">>, <<"Received", "Rejected">>}

\* The chain Received, Extracting, Prompting, AwaitingModel, Normalizing,
\* then Succeeded or Degraded.
ChainMoves ==
    {<<"Received", "Extracting">>, <<"Extracting", "Prompting">>,
     <<"Prompting", "AwaitingModel">>, <<"AwaitingModel", "Normalizing">>,
     <<"Normalizing", "Succeeded">>, <<"Normalizing", "Degraded">>}

\* The two exits from the chain: extraction raises, the AI call raises.
ExitMoves == {<<"Extracting", "Failed">>, <<"AwaitingModel", "Degraded">>}

\* The step goes from one state of the request to the next along a move
\* of the set.
Moves(allowed) == (<<pc, pc'>>) \in allowed

\* What every step keeps, besides the order of the steps: the AI call is
\* issued once, from Prompting, after the one extraction; normalisation
\* starts on a reply; Succeeded and Degraded answer 200 with the result.
StepDiscipline ==
    /\ aiCalls' # aiCalls => (pc = "Prompting" /\ aiCalls = 0 /\ aiCalls' = 1 /\ pdfCalls = 1)
    /\ pdfCalls' # pdfCalls => (pc = "Extracting" /\ pdfCalls = 0 /\ pdfCalls' = 1)
    /\ pc' = "Normalizing" => (aiCalls = 1 /\ ai'.kind \in {"text", "notext"})
    /\ pc' \in {"Succeeded", "Degraded"} =>
          (status' = 200 /\ DOMAIN body' = ResultKeys /\ body' = result')

\* C10 as stated: every step of a request follows the chain, without
\* skipping or repeating a step, and both final states answer 200.
C10_StrictChain == [][Moves(IntakeMoves \cup ChainMoves) /\ StepDiscipline]_vars

\* C10, amended: every step follows the chain or leaves it by one of the two
\* exits (extraction raises: Extracting to the 500 answer; the AI call
\* raises: AwaitingModel to Degraded without normalisation); no step is
\* repeated, the AI call is issued at most once and after extraction,
\* and both Succeeded and Degraded answer 200 with a JSON body.
C10_ChainWithExits ==
    [][Moves(IntakeMoves \cup ChainMoves \cup ExitMoves) /\ StepDiscipline]_vars

C10_Witness ==
    /\ pc = "Degraded"
    /\ ai.kind = "raise"
    /\ status = 200
    /\ aiCalls = 1
    /\ pdfCalls = 1

=============================================================================
